---------------------------- MODULE Spec2Model ----------------------------
(***************************************************************************)
(* State-machine model of AlignmentPatternFinder::Find                     *)
(* (core/src/qrcode/QRAlignmentPatternFinder.cpp) and of its helpers       *)
(* CenterFromEnd, FoundPatternCross, CrossCheckVertical and                *)
(* HandlePossibleCenter.                                                   *)
(*                                                                         *)
(* One invocation of Find is a frame of locals that is stepped one loop    *)
(* iteration at a time.  Several invocations may run on the same image.    *)
(*                                                                         *)
(* float values are held as integers in units of 2^-24; every value the    *)
(* program computes on the grids below is a binary32 number of that form,  *)
(* and the two operations that round (the division by 3.0f and the sum of  *)
(* two module sizes) are rounded to a 24 bit significand, ties to even.    *)
(***************************************************************************)
EXTENDS Integers, Sequences, FiniteSets, TLC

VARIABLES
    image,            \* the BitMatrix: [width, height, bits], bits = the set pixels
    frame,            \* per invocation: the locals of Find and of its callees
    possibleCenters   \* per invocation: std::vector<AlignmentPattern> (line 158)

vars == <<image, frame, possibleCenters>>

-----------------------------------------------------------------------------
(* Bounds of the model *)

GridW == 4
GridH == 4
MaxDark == 3
MaxRun == 20

Procs == {1, 2}

-----------------------------------------------------------------------------
(* binary32 arithmetic on integers in units of 2^-24 *)

Scale == 2^24

NaN == -(2^30)

IsNaN(f) == f = NaN

FromInt(n) == n * Scale

Abs(n) == IF n < 0 THEN -n ELSE n

\* C integer division, truncating toward zero
TruncDiv(a, b) == IF a >= 0 THEN a \div b ELSE -((-a) \div b)

\* the unit in the last place of a value x >= 0 (24 bit significand)
RECURSIVE Ulp(_)
Ulp(x) == IF x < Scale THEN 1 ELSE 2 * Ulp(x \div 2)

\* n/d rounded to the nearest multiple of u, ties to even; n, d, u > 0
RoundQuot(n, d, u) ==
    LET q == n \div (d * u)
        r == n % (d * u)
    IN  IF 2 * r < d * u THEN q * u
        ELSE IF 2 * r > d * u THEN (q + 1) * u
        ELSE IF q % 2 = 0 THEN q * u ELSE (q + 1) * u

RoundF(x) ==
    IF IsNaN(x) THEN NaN
    ELSE IF x < 0 THEN -RoundQuot(-x, 1, Ulp(-x))
    ELSE RoundQuot(x, 1, Ulp(x))

FAdd(a, b) == IF IsNaN(a) \/ IsNaN(b) THEN NaN ELSE RoundF(a + b)

FSub(a, b) == IF IsNaN(a) \/ IsNaN(b) THEN NaN ELSE RoundF(a - b)

FAbs(a) == IF IsNaN(a) THEN NaN ELSE Abs(a)

FHalf(a) == IF IsNaN(a) THEN NaN ELSE TruncDiv(a, 2)

\* comparisons with a NaN operand are false
FLe(a, b) == ~IsNaN(a) /\ ~IsNaN(b) /\ a <= b

FGe(a, b) == ~IsNaN(a) /\ ~IsNaN(b) /\ a >= b

\* (float)n / 3.0f
FDiv3(n) ==
    IF n <= 0 THEN -RoundQuot(FromInt(-n), 3, Ulp(FromInt(-n) \div 3))
    ELSE RoundQuot(FromInt(n), 3, Ulp(FromInt(n) \div 3))

\* static_cast<int>(f)
ToInt(f) == TruncDiv(f, Scale)

-----------------------------------------------------------------------------
(* BitMatrix *)

InImage(x, y) == 0 <= x /\ x < image.width /\ 0 <= y /\ y < image.height

\* image.get(x, y) for a pixel of the image: TRUE for a black (set) pixel
Get(x, y) == <<x, y>> \in image.bits

\* What image.get(x, y) can return.  Outside the image the read is out of
\* range and its value is whatever lies there.
GetValues(x, y) == IF InImage(x, y) THEN {Get(x, y)} ELSE BOOLEAN

-----------------------------------------------------------------------------
(* StateCount and the pure helpers *)

ZeroCount == [k \in 0..2 |-> 0]

Total(stateCount) == stateCount[0] + stateCount[1] + stateCount[2]

\* variant: the end of the middle run is taken for its center
CenterFromEndOfMiddle(stateCount, end) ==
    FromInt(end - stateCount[2])

\* variant: the end index is taken for the center
CenterFromEndUnshifted(stateCount, end) == FromInt(end)

\* variant: the center of the third run is taken
CenterFromEndOfThird(stateCount, end) ==
    FSub(FromInt(end), FHalf(FromInt(stateCount[2])))

\* line 40
CenterFromEnd(stateCount, end) ==
    FSub(FromInt(end - stateCount[2]), FHalf(FromInt(stateCount[1])))

\* variant: the first count is not tested
FoundPatternCrossFromSecond(stateCount, moduleSize) ==
    LET maxVariance == FHalf(moduleSize)
    IN  \A k \in 1..2 :
            ~FGe(FAbs(FSub(moduleSize, FromInt(stateCount[k]))), maxVariance)

\* variant: a count that differs by exactly moduleSize / 2 is accepted
FoundPatternCrossInclusive(stateCount, moduleSize) ==
    LET maxVariance == FHalf(moduleSize)
    IN  \A k \in 0..2 :
            FLe(FAbs(FSub(moduleSize, FromInt(stateCount[k]))), maxVariance)

\* lines 50-56: every count is within moduleSize / 2 of moduleSize
FoundPatternCross(stateCount, moduleSize) ==
    LET maxVariance == FHalf(moduleSize)
    IN  \A k \in 0..2 :
            ~FGe(FAbs(FSub(moduleSize, FromInt(stateCount[k]))), maxVariance)

-----------------------------------------------------------------------------
(* AlignmentPattern (qrcode/QRAlignmentPattern.h) *)

\* a default-constructed AlignmentPattern: what the caller passes as result
NoPattern == [x |-> 0, y |-> 0, estimatedModuleSize |-> 0]

AlignmentPattern(posX, posY, estimatedModuleSize) ==
    [x |-> posX, y |-> posY, estimatedModuleSize |-> estimatedModuleSize]

aboutEquals(center, moduleSize, i, j) ==
    /\ FLe(FAbs(FSub(center.estimatedModuleSize, moduleSize)), FromInt(1))
    /\ FLe(FAbs(FSub(center.y, i)), center.estimatedModuleSize)
    /\ FLe(FAbs(FSub(center.x, j)), center.estimatedModuleSize)

combineEstimate(center, i, j, newModuleSize) ==
    AlignmentPattern(FHalf(FAdd(center.x, j)),
                     FHalf(FAdd(center.y, i)),
                     FHalf(FAdd(center.estimatedModuleSize, newModuleSize)))

-----------------------------------------------------------------------------
(* The frame of one invocation of Find *)

\* variant: one vector for all invocations
SlotShared(p) == 1

\* The vector an invocation works on: its own local (line 158).
Slot(p) == p

\* The frame on entry to Find(image, startX, startY, width, height, moduleSize, result)
Entry(startX, startY, width, height, moduleSize) ==
    [ pc |-> "Start",
      startX |-> startX, startY |-> startY, width |-> width, height |-> height,
      moduleSize |-> moduleSize,
      maxJ |-> 0, middleI |-> 0, iGen |-> 0, i |-> 0, j |-> 0,
      stateCount |-> ZeroCount, currentState |-> 0,
      \* HandlePossibleCenter: its argument j and the call site
      endJ |-> 0, site |-> "none", centerJ |-> 0,
      \* CrossCheckVertical: its i, stateCount, centerJ, maxCount and
      \* originalStateCountTotal; after it returned, their values at the return
      ccI |-> 0, ccCount |-> ZeroCount, ccJ |-> 0, maxCount |-> 0, ccTotal |-> 0,
      \* the out-parameter and the returned DecodeStatus
      result |-> NoPattern, status |-> "none",
      \* history: rows scanned, an out-of-range read made, how Find returned,
      \* the observations that passed the cross-check, the first one saved
      rows |-> <<>>, outOfRange |-> FALSE, confirmed |-> FALSE,
      observed |-> 0, lastSeen |-> NoPattern, matched |-> 0,
      firstSaved |-> NoPattern, saved |-> 0,
      \* history of the cross-check: the loops that ran into the edge of the
      \* image, and for the last one finished those loops, the loop it returned
      \* from and the value returned
      edges |-> {}, lastEdges |-> {}, lastExit |-> "none", lastCross |-> 0,
      crossChecks |-> 0 ]

Idle == [Entry(0, 0, 0, 0, 0) EXCEPT !.pc = "Idle"]

\* The frame of invocation p together with the vector it works on
Local(p) == [f |-> frame[p], centers |-> possibleCenters[Slot(p)]]

\* variant: the rows are taken below the middle first
RowOfBelowFirst(middleI, iGen) ==
    middleI + (IF iGen % 2 = 0 THEN -((iGen + 1) \div 2) ELSE (iGen + 1) \div 2)

\* variant: the rows are taken from the middle upward only
RowOfUpward(middleI, iGen) == middleI - iGen

\* line 166: the row of generation iGen
RowOf(middleI, iGen) ==
    middleI + (IF iGen % 2 = 0 THEN (iGen + 1) \div 2 ELSE -((iGen + 1) \div 2))

\* variant: half the height is rounded up
MiddleRowRoundedUp(startY, height) == startY + TruncDiv(height + 1, 2)

\* line 157
MiddleRow(startY, height) == startY + TruncDiv(height, 2)

\* lines 156-159
StartStep(l) ==
    [ f |-> [l.f EXCEPT !.pc = "RowLoop",
                        !.maxJ = l.f.startX + l.f.width,
                        !.middleI = MiddleRow(l.f.startY, l.f.height),
                        !.iGen = 0],
      centers |-> <<>> ]

\* variant: the row scan starts at the left edge of the image
FirstColumnOfImage(startX) == 0

\* line 167: the column a row scan starts at
FirstColumn(startX) == startX

\* lines 163-167: the head of the row loop
RowLoopStep(l) ==
    IF l.f.iGen < l.f.height
    THEN [l EXCEPT !.f.pc = "Burn",
                   !.f.stateCount = ZeroCount,
                   !.f.i = RowOf(l.f.middleI, l.f.iGen),
                   !.f.j = FirstColumn(l.f.startX),
                   !.f.rows = Append(@, RowOf(l.f.middleI, l.f.iGen))]
    ELSE [l EXCEPT !.f.pc = "Fallback", !.f.i = 0, !.f.j = 0,
                   !.f.stateCount = ZeroCount, !.f.currentState = 0]

\* lines 171-174: one test of the loop that skips the leading white pixels;
\* v is the value image.get(j, i) returned
BurnStep(l, v) ==
    IF l.f.j < l.f.maxJ /\ ~v
    THEN [l EXCEPT !.f.j = @ + 1]
    ELSE [l EXCEPT !.f.pc = "Scan", !.f.currentState = 0]

\* variant: the middle count restarts at 0
SlideRestart(l) ==
    [l EXCEPT !.f.pc = "Scan",
              !.f.stateCount = [k \in 0..2 |-> IF k = 0 THEN l.f.stateCount[2] ELSE 0],
              !.f.currentState = 1,
              !.f.j = @ + 1]

\* variant: the new first count is the third count less the middle count
SlideLessMiddle(l) ==
    [l EXCEPT !.f.pc = "Scan",
              !.f.stateCount = [k \in 0..2 |->
                    IF k = 0 THEN l.f.stateCount[2] - l.f.stateCount[1]
                    ELSE IF k = 1 THEN 1 ELSE 0],
              !.f.currentState = 1,
              !.f.j = @ + 1]

\* lines 188-191 and 204: the triple was not confirmed, slide and go on
Slide(l) ==
    [l EXCEPT !.f.pc = "Scan",
              !.f.stateCount = [k \in 0..2 |->
                    IF k = 0 THEN l.f.stateCount[2] ELSE IF k = 1 THEN 1 ELSE 0],
              !.f.currentState = 1,
              !.f.j = @ + 1]

\* variant: the generation is not advanced
NextRowSame(l) ==
    [l EXCEPT !.f.pc = "RowLoop"]

\* line 212: the row is finished
NextRow(l) ==
    [l EXCEPT !.f.pc = "RowLoop", !.f.iGen = @ + 1]

\* lines 131-133 and 72-76: HandlePossibleCenter is entered with end index j
\* and calls CrossCheckVertical
EnterHandlePossibleCenter(l, j, site) ==
    LET centerJ == CenterFromEnd(l.f.stateCount, j)
    IN  [l EXCEPT !.f.pc = "UpMiddle",
                  !.f.endJ = j, !.f.site = site, !.f.centerJ = centerJ,
                  !.f.ccI = l.f.i, !.f.ccCount = ZeroCount,
                  !.f.ccJ = ToInt(centerJ), !.f.edges = {},
                  !.f.maxCount = 2 * l.f.stateCount[1],
                  !.f.ccTotal = Total(l.f.stateCount)]

\* variant: the last column of the row is passed as the end index
RowEndLastColumn(maxJ) == maxJ - 1

\* line 207: the end index passed at the end of a row
RowEnd(maxJ) == maxJ

\* lines 175-210: one test of the column loop of a row; v is the value
\* image.get(j, i) returned when j < maxJ
ScanStep(l, v) ==
    LET f == l.f IN
    IF f.j < f.maxJ
    THEN IF v
         THEN IF f.currentState = 1
              THEN [l EXCEPT !.f.stateCount[1] = @ + 1, !.f.j = @ + 1]
              ELSE IF f.currentState = 2
                   THEN IF FoundPatternCross(f.stateCount, f.moduleSize)
                        THEN EnterHandlePossibleCenter(l, f.j, "scan")
                        ELSE Slide(l)
                   ELSE [l EXCEPT !.f.currentState = @ + 1,
                                  !.f.stateCount[f.currentState + 1] = @ + 1,
                                  !.f.j = @ + 1]
         ELSE LET cs == IF f.currentState = 1 THEN 2 ELSE f.currentState
              IN  [l EXCEPT !.f.currentState = cs,
                            !.f.stateCount[cs] = @ + 1,
                            !.f.j = @ + 1]
    ELSE IF FoundPatternCross(f.stateCount, f.moduleSize)
         THEN EnterHandlePossibleCenter(l, RowEnd(f.maxJ), "rowend")
         ELSE NextRow(l)

-----------------------------------------------------------------------------
(* HandlePossibleCenter after the cross-check, and the return to Find *)

\* variant: the value of the cross-check is used without the isnan test
CrossCheckPassedUntested(centerI) == TRUE

\* line 134
CrossCheckPassed(centerI) == ~IsNaN(centerI)

\* variant: only the center saved last is tried
FirstMatchOfLast(centers, estimatedModuleSize, centerI, centerJ) ==
    IF centers # <<>>
          /\ aboutEquals(centers[Len(centers)], estimatedModuleSize, centerI, centerJ)
    THEN Len(centers) ELSE 0

\* lines 136-142: the index of the first center that is about equal, 0 if none
FirstMatch(centers, estimatedModuleSize, centerI, centerJ) ==
    LET hits == {k \in 1..Len(centers) :
                    aboutEquals(centers[k], estimatedModuleSize, centerI, centerJ)}
    IN  IF hits = {} THEN 0 ELSE CHOOSE k \in hits : \A h \in hits : k <= h

\* lines 185-191 and 208-212: HandlePossibleCenter returned false
Continue(l) == IF l.f.site = "scan" THEN Slide(l) ELSE NextRow(l)

\* CrossCheckVertical has returned centerI from the loop it was in
Leave(l, loop, centerI) ==
    [l EXCEPT !.f.edges = {}, !.f.lastEdges = l.f.edges, !.f.lastExit = loop,
              !.f.lastCross = centerI, !.f.crossChecks = @ + 1]

\* lines 134-150, then lines 184-186 or 207-209: CrossCheckVertical returned
\* centerI to HandlePossibleCenter, which returns to Find
HandlePossibleCenter(l, centerI) ==
    LET f == l.f IN
    IF CrossCheckPassed(centerI)
    THEN LET estimatedModuleSize == FDiv3(Total(f.stateCount))
             seen == AlignmentPattern(f.centerJ, centerI, estimatedModuleSize)
             k == FirstMatch(l.centers, estimatedModuleSize, centerI, f.centerJ)
         IN  IF k # 0
             THEN [Leave(l, f.pc, centerI) EXCEPT
                        !.f.pc = "Done",
                        !.f.result = combineEstimate(l.centers[k], centerI,
                                                     f.centerJ, estimatedModuleSize),
                        !.f.status = "NoError",
                        !.f.confirmed = TRUE,
                        !.f.observed = @ + 1, !.f.lastSeen = seen, !.f.matched = k]
             ELSE [Leave(Continue(l), f.pc, centerI) EXCEPT
                        !.centers = Append(@, seen),
                        !.f.observed = @ + 1, !.f.lastSeen = seen, !.f.matched = 0,
                        !.f.saved = @ + 1,
                        !.f.firstSaved = IF f.saved = 0 THEN seen ELSE @]
    ELSE Leave(Continue(l), f.pc, centerI)

-----------------------------------------------------------------------------
(* CrossCheckVertical, one loop test at a time *)

\* variant: the loops that count up do not test i >= 0
AboveTopUntested(i) == FALSE

\* lines 77 and 85: the guard i >= 0 of the two loops that count up
AboveTop(i) == i < 0

\* lines 95 and 102: the guard i < maxI of the two loops that count down
BelowBottom(i) == i >= image.height

\* line 82: ran off the top edge while counting the middle run
OffTop(i) == i < 0

\* line 99: ran off the bottom edge while counting the middle run
OffBottom(i) == i = image.height

\* the guard stateCount[k] <= maxCount of the four loops
WithinMaxCount(count, maxCount) == count <= maxCount

\* variant: the total of the vertical counts is not held against the
\* horizontal total
CrossCheckResultOfRatio(stateCount, i, originalStateCountTotal, moduleSize) ==
    IF FoundPatternCross(stateCount, moduleSize)
    THEN CenterFromEnd(stateCount, i)
    ELSE NaN

\* lines 110-115
CrossCheckResult(stateCount, i, originalStateCountTotal, moduleSize) ==
    LET stateCountTotal == Total(stateCount)
    IN  IF 5 * Abs(stateCountTotal - originalStateCountTotal)
                >= 2 * originalStateCountTotal
        THEN NaN
        ELSE IF FoundPatternCross(stateCount, moduleSize)
             THEN CenterFromEnd(stateCount, i)
             ELSE NaN

\* the edge of the image met at the exit of loop 'name'
AtEdge(l, name, met) == IF met THEN [l EXCEPT !.f.edges = @ \cup {name}] ELSE l

\* lines 77-84
UpMiddleStep(l, v) ==
    LET f == l.f IN
    IF ~AboveTop(f.ccI) /\ v /\ WithinMaxCount(f.ccCount[1], f.maxCount)
    THEN [l EXCEPT !.f.ccCount[1] = @ + 1, !.f.ccI = @ - 1]
    ELSE IF OffTop(f.ccI) \/ f.ccCount[1] > f.maxCount
         THEN HandlePossibleCenter(AtEdge(l, "upMiddle", f.ccI < 0), NaN)
         ELSE [l EXCEPT !.f.pc = "UpOuter"]

\* variant: running off the top edge in the outer run fails the cross-check
UpOuterStepStrict(l, v) ==
    LET f == l.f IN
    IF ~AboveTop(f.ccI) /\ ~v /\ WithinMaxCount(f.ccCount[0], f.maxCount)
    THEN [l EXCEPT !.f.ccCount[0] = @ + 1, !.f.ccI = @ - 1]
    ELSE IF f.ccI < 0 \/ f.ccCount[0] > f.maxCount
         THEN HandlePossibleCenter(AtEdge(l, "upOuter", f.ccI < 0), NaN)
         ELSE [AtEdge(l, "upOuter", f.ccI < 0) EXCEPT
                    !.f.pc = "DownMiddle", !.f.ccI = f.i + 1]

\* lines 85-94
UpOuterStep(l, v) ==
    LET f == l.f IN
    IF ~AboveTop(f.ccI) /\ ~v /\ WithinMaxCount(f.ccCount[0], f.maxCount)
    THEN [l EXCEPT !.f.ccCount[0] = @ + 1, !.f.ccI = @ - 1]
    ELSE IF f.ccCount[0] > f.maxCount
         THEN HandlePossibleCenter(AtEdge(l, "upOuter", f.ccI < 0), NaN)
         ELSE [AtEdge(l, "upOuter", f.ccI < 0) EXCEPT
                    !.f.pc = "DownMiddle", !.f.ccI = f.i + 1]

\* lines 95-101
DownMiddleStep(l, v) ==
    LET f == l.f IN
    IF ~BelowBottom(f.ccI) /\ v /\ WithinMaxCount(f.ccCount[1], f.maxCount)
    THEN [l EXCEPT !.f.ccCount[1] = @ + 1, !.f.ccI = @ + 1]
    ELSE IF OffBottom(f.ccI) \/ f.ccCount[1] > f.maxCount
         THEN HandlePossibleCenter(
                  AtEdge(l, "downMiddle", f.ccI >= image.height), NaN)
         ELSE [l EXCEPT !.f.pc = "DownOuter"]

\* lines 102-115
DownOuterStep(l, v) ==
    LET f == l.f
        met == AtEdge(l, "downOuter", f.ccI >= image.height)
    IN
    IF ~BelowBottom(f.ccI) /\ ~v /\ WithinMaxCount(f.ccCount[2], f.maxCount)
    THEN [l EXCEPT !.f.ccCount[2] = @ + 1, !.f.ccI = @ + 1]
    ELSE IF f.ccCount[2] > f.maxCount
         THEN HandlePossibleCenter(met, NaN)
         ELSE HandlePossibleCenter(met,
                  CrossCheckResult(f.ccCount, f.ccI, f.ccTotal, f.moduleSize))

-----------------------------------------------------------------------------
(* The end of Find *)

\* variant: the fallback returns the candidate saved last
FallbackResultLast(centers) == centers[Len(centers)]

\* line 217
FallbackResult(centers) == Head(centers)

\* lines 216-221
FallbackStep(l) ==
    IF l.centers # <<>>
    THEN [l EXCEPT !.f.pc = "Done", !.f.result = FallbackResult(l.centers),
                   !.f.status = "NoError"]
    ELSE [l EXCEPT !.f.pc = "Done", !.f.status = "NotFound"]

-----------------------------------------------------------------------------
(* The actions: one per loop test or straight-line block of Find *)

\* the pixel the next step of a frame passes to image.get, if it reads one
Reads(f) ==
    IF f.pc \in {"Burn", "Scan"}
    THEN IF f.j < f.maxJ THEN {<<f.j, f.i>>} ELSE {}
    ELSE IF f.pc \in {"UpMiddle", "UpOuter"}
    THEN IF ~AboveTop(f.ccI) THEN {<<f.ccJ, f.ccI>>} ELSE {}
    ELSE IF f.pc \in {"DownMiddle", "DownOuter"}
    THEN IF ~BelowBottom(f.ccI) THEN {<<f.ccJ, f.ccI>>} ELSE {}
    ELSE {}

ReadsOutOfRange(f) == \E px \in Reads(f) : ~InImage(px[1], px[2])

\* the values the read of the next step can return
ReadValues(f) ==
    IF Reads(f) = {} THEN {FALSE}
    ELSE LET px == CHOOSE q \in Reads(f) : TRUE IN GetValues(px[1], px[2])

Commit(p, l) ==
    /\ frame' = [frame EXCEPT ![p] =
                    [l.f EXCEPT !.outOfRange = @ \/ ReadsOutOfRange(frame[p])]]
    /\ possibleCenters' = [possibleCenters EXCEPT ![Slot(p)] = l.centers]
    /\ UNCHANGED image

Start(p) ==
    /\ frame[p].pc = "Start"
    /\ Commit(p, StartStep(Local(p)))

RowLoop(p) ==
    /\ frame[p].pc = "RowLoop"
    /\ Commit(p, RowLoopStep(Local(p)))

Burn(p) ==
    /\ frame[p].pc = "Burn"
    /\ \E v \in ReadValues(frame[p]) : Commit(p, BurnStep(Local(p), v))

Scan(p) ==
    /\ frame[p].pc = "Scan"
    /\ \E v \in ReadValues(frame[p]) : Commit(p, ScanStep(Local(p), v))

UpMiddle(p) ==
    /\ frame[p].pc = "UpMiddle"
    /\ \E v \in ReadValues(frame[p]) : Commit(p, UpMiddleStep(Local(p), v))

UpOuter(p) ==
    /\ frame[p].pc = "UpOuter"
    /\ \E v \in ReadValues(frame[p]) : Commit(p, UpOuterStep(Local(p), v))

DownMiddle(p) ==
    /\ frame[p].pc = "DownMiddle"
    /\ \E v \in ReadValues(frame[p]) : Commit(p, DownMiddleStep(Local(p), v))

DownOuter(p) ==
    /\ frame[p].pc = "DownOuter"
    /\ \E v \in ReadValues(frame[p]) : Commit(p, DownOuterStep(Local(p), v))

Fallback(p) ==
    /\ frame[p].pc = "Fallback"
    /\ Commit(p, FallbackStep(Local(p)))

\* an out-of-range read can also end the invocation abnormally
Fault(p) ==
    /\ ReadsOutOfRange(frame[p])
    /\ frame' = [frame EXCEPT ![p].pc = "Fault", ![p].outOfRange = TRUE]
    /\ UNCHANGED <<image, possibleCenters>>

Step(p) ==
        \/ Start(p)
        \/ RowLoop(p)
        \/ Burn(p)
        \/ Scan(p)
        \/ UpMiddle(p)
        \/ UpOuter(p)
        \/ DownMiddle(p)
        \/ DownOuter(p)
        \/ Fallback(p)
        \/ Fault(p)

Next == \E p \in Procs : Step(p)

-----------------------------------------------------------------------------
(* The images, windows and module sizes the invocations are started on *)

Pixels(w, h) == (0..(w - 1)) \X (0..(h - 1))

\* the sets of at most n pixels of a w x h image, taken among the pixels
\* numbered lo and up (row by row)
RECURSIVE UpTo(_, _, _, _)
UpTo(w, h, lo, n) ==
    IF n <= 0 THEN {{}}
    ELSE {{}} \cup UNION {{ {<<k % w, k \div w>>} \cup s : s \in UpTo(w, h, k + 1, n - 1)}
                            : k \in lo..(w * h - 1)}

Image(w, h, bits) == [width |-> w, height |-> h, bits |-> bits]

\* every GridW x GridH image with at most n black pixels
SmallImages(n) == {Image(GridW, GridH, b) : b \in UpTo(GridW, GridH, 0, n)}

\* the expected module sizes: 1.0f and 1.5f
ModuleSizes == {FromInt(1), FromInt(3) \div 2}

Window(x, y, w, h) == [startX |-> x, startY |-> y, width |-> w, height |-> h]

WholeImage(img) == Window(0, 0, img.width, img.height)

\* windows inside the image other than the whole image, two of height 1 and 2
\* and empty ones included
InnerWindows(img) ==
    { Window(1, 0, img.width - 1, img.height),
      Window(0, 1, img.width - 1, img.height - 1),
      Window(0, 1, img.width, 1),
      Window(0, 1, img.width, 2),
      Window(0, 0, 0, img.height),
      Window(0, 0, img.width, 0),
      Window(1, 1, -1, -1) }

\* windows that extend past the image on one side
OuterWindows(img) ==
    { Window(-1, 0, img.width, img.height),
      Window(1, 0, img.width, img.height),
      Window(0, -1, img.width, img.height),
      Window(0, 1, img.width, img.height) }

Call(img, win, moduleSize) == [image |-> img, window |-> win, moduleSize |-> moduleSize]

WindowInImage(img, f) ==
    /\ 0 <= f.startX /\ 0 <= f.width /\ f.startX + f.width <= img.width
    /\ 0 <= f.startY /\ 0 <= f.height /\ f.startY + f.height <= img.height

\* 21 x 21, white but for a 5 x 5 ring pattern of 1 pixel modules centered on
\* pixel (10, 10): black outer ring, white inner ring, black center pixel
RingImage ==
    Image(21, 21, {px \in Pixels(21, 21) :
                      LET dx == Abs(px[1] - 10)
                          dy == Abs(px[2] - 10)
                          d == IF dx > dy THEN dx ELSE dy
                      IN  d = 2 \/ d = 0})

\* 21 x 21, all white
LightImage == Image(21, 21, {})

\* 12 x 8 with two structures that each confirm with module size 1.5:
\* A, two pixels high, around column 2 of rows 5 and 6, and
\* B, two pixels high, around column 6 of rows 1 and 2
TwoPatterns ==
    Image(12, 8,
          {<<x, y>> : x \in {0, 2, 4}, y \in {5, 6}} \cup {<<2, 3>>}
          \cup {<<x, y>> : x \in {4, 6, 8}, y \in {1, 2}} \cup {<<6, 4>>})

\* 12 x 8 with two structures, each one pixel high, that pass the cross-check
\* with module size 1.0 and are too far apart to be about equal:
\* around column 2 of row 5 and around column 6 of row 2
TwoSingles ==
    Image(12, 8,
          {<<x, 5>> : x \in {0, 2, 4}} \cup {<<2, 3>>, <<2, 7>>}
          \cup {<<x, 2>> : x \in {4, 6, 8}} \cup {<<6, 0>>, <<6, 4>>})

\* 4 x 5, one structure in row 2 whose column 2 holds two white pixels above,
\* one black pixel and two white pixels below: a vertical total of 5 against
\* a horizontal total of 3
TallImage == Image(4, 5, {<<0, 2>>, <<2, 2>>})

\* 6 x 5 with two structures that pass the cross-check with module size 1.5:
\* one seen in row 1 at (2.5, 1.5) with estimated module size 4/3, and one
\* seen in row 2 at (3.5, 3.0) with estimated module size 5/3
UnevenPair ==
    Image(6, 5, {<<0, 1>>, <<2, 1>>, <<5, 1>>, <<0, 2>>, <<3, 2>>, <<3, 3>>, <<2, 4>>})

Scenarios ==
    { Call(RingImage, WholeImage(RingImage), FromInt(1)),
      Call(LightImage, WholeImage(LightImage), FromInt(1)),
      Call(TwoPatterns, WholeImage(TwoPatterns), FromInt(3) \div 2),
      Call(TwoSingles, WholeImage(TwoSingles), FromInt(1)),
      Call(TallImage, WholeImage(TallImage), FromInt(3) \div 2),
      \* the three upper rows of UnevenPair: rows 1, 0, 2 in this order
      Call(UnevenPair, Window(0, 0, 6, 3), FromInt(3) \div 2),
      \* the three rightmost columns of TwoPatterns: no black pixel
      Call(TwoPatterns, Window(9, 0, 3, 8), FromInt(3) \div 2) }

\* images whose black pixels are among columns 0 and 2 of rows 1 and 2
TwoRowImages ==
    {Image(GridW, GridH, b) : b \in SUBSET ({0, 2} \X {1, 2})}

\* images whose black pixels are among columns 0 and 2
TwoColumnImages ==
    {Image(GridW, GridH, b) : b \in SUBSET ({0, 2} \X (0..(GridH - 1)))}

Calls ==
    {Call(img, WholeImage(img), m) :
        img \in SmallImages(MaxDark) \cup TwoColumnImages, m \in ModuleSizes}
    \cup Scenarios
    \cup UNION {{Call(img, win, m) : win \in InnerWindows(img) \cup OuterWindows(img),
                                     m \in ModuleSizes}
                    : img \in SmallImages(MaxDark - 2) \cup TwoRowImages}

EntryOf(c) ==
    Entry(c.window.startX, c.window.startY, c.window.width, c.window.height,
          c.moduleSize)

\* one invocation
Init ==
    \E c \in Calls :
        /\ image = c.image
        /\ frame = [p \in Procs |-> IF p = 1 THEN EntryOf(c) ELSE Idle]
        /\ possibleCenters = [p \in Procs |-> <<>>]

Spec == Init /\ [][Next]_vars

\* two invocations on one image: the whole image, and the whole image again,
\* an overlapping window within it or a window that extends past it
PairsOfCalls ==
    UNION {{<<Call(img, WholeImage(img), m1), Call(img, win, m2)>> :
                m1 \in ModuleSizes, m2 \in ModuleSizes,
                win \in { WholeImage(img),
                          Window(0, 1, img.width, img.height - 1),
                          Window(0, 1, img.width, img.height) }}
            : img \in TwoRowImages}

InitConcurrent ==
    \E c \in PairsOfCalls :
        /\ image = c[1].image
        /\ frame = [p \in Procs |-> EntryOf(c[p])]
        /\ possibleCenters = [p \in Procs |-> <<>>]

\* two invocations, their steps interleaved in any order
SpecConcurrent == InitConcurrent /\ [][Next]_vars

\* the step of a frame that runs alone on a window within the image
StepAlone(l) ==
    LET f == l.f
        v == IF Reads(f) = {} THEN FALSE
             ELSE LET px == CHOOSE q \in Reads(f) : TRUE IN Get(px[1], px[2])
    IN  IF f.pc = "Start" THEN StartStep(l)
        ELSE IF f.pc = "RowLoop" THEN RowLoopStep(l)
        ELSE IF f.pc = "Burn" THEN BurnStep(l, v)
        ELSE IF f.pc = "Scan" THEN ScanStep(l, v)
        ELSE IF f.pc = "UpMiddle" THEN UpMiddleStep(l, v)
        ELSE IF f.pc = "UpOuter" THEN UpOuterStep(l, v)
        ELSE IF f.pc = "DownMiddle" THEN DownMiddleStep(l, v)
        ELSE IF f.pc = "DownOuter" THEN DownOuterStep(l, v)
        ELSE IF f.pc = "Fallback" THEN FallbackStep(l)
        ELSE l

\* Find run from frame l to its return with no other invocation
RECURSIVE RunAlone(_)
RunAlone(l) == IF l.f.pc = "Done" THEN l ELSE RunAlone(StepAlone(l))

\* what Find returns for the arguments of frame f when it runs alone
Alone(f) ==
    RunAlone([f |-> Entry(f.startX, f.startY, f.width, f.height, f.moduleSize),
              centers |-> <<>>]).f

-----------------------------------------------------------------------------
(* FoundPatternCross on its own: every triple of counts up to MaxRun *)

\* module sizes 10.0f, 1.0f, 1.5f and 2.5f
RatioModuleSizes == {FromInt(10), FromInt(1), FromInt(3) \div 2, FromInt(5) \div 2}

\* a call FoundPatternCross(stateCount, moduleSize) that has not returned
RatioEntry(stateCount, moduleSize) ==
    [pc |-> "Ratio", stateCount |-> stateCount, moduleSize |-> moduleSize,
     accepted |-> FALSE]

InitRatio ==
    \E stateCount \in [0..2 -> 0..MaxRun], moduleSize \in RatioModuleSizes :
        /\ image = Image(0, 0, {})
        /\ frame = [p \in Procs |-> RatioEntry(stateCount, moduleSize)]
        /\ possibleCenters = [p \in Procs |-> <<>>]

\* lines 48-57: the call returns
Judge(p) ==
    /\ frame[p].pc = "Ratio"
    /\ frame' = [frame EXCEPT ![p].pc = "Judged",
                              ![p].accepted = FoundPatternCross(frame[p].stateCount,
                                                                frame[p].moduleSize)]
    /\ UNCHANGED <<image, possibleCenters>>

NextRatio == \E p \in Procs : Judge(p)

SpecRatio == InitRatio /\ [][NextRatio]_vars

-----------------------------------------------------------------------------
(* Properties *)

Done(p) == frame[p].pc = "Done"

WindowOf(f) == Window(f.startX, f.startY, f.width, f.height)

HasNaN(pattern) ==
    IsNaN(pattern.x) \/ IsNaN(pattern.y) \/ IsNaN(pattern.estimatedModuleSize)

\* C1: when Find has gone through every row without a confirmation, it
\* returns NotFound exactly if no candidate was ever saved, and otherwise
\* NoError with the candidate that was saved first.
C1_FallbackIsFirstSaved ==
    \A p \in Procs :
        (Done(p) /\ ~frame[p].confirmed) =>
            /\ frame[p].status = "NotFound" <=> frame[p].saved = 0
            /\ frame[p].saved = 0 <=> possibleCenters[Slot(p)] = <<>>
            /\ frame[p].saved > 0 =>
                    /\ frame[p].status = "NoError"
                    /\ frame[p].result = frame[p].firstSaved

\* C1 witness: a fallback return with two candidates saved
C1_Witness ==
    \E p \in Procs :
        /\ Done(p) /\ ~frame[p].confirmed /\ frame[p].saved >= 2
        /\ possibleCenters[Slot(p)][2] # possibleCenters[Slot(p)][1]
        /\ frame[p].result = frame[p].firstSaved

\* the centers saved so far that are about equal to pattern seen
Matches(centers, seen) ==
    {k \in 1..Len(centers) :
        aboutEquals(centers[k], seen.estimatedModuleSize, seen.y, seen.x)}

Least(S) == CHOOSE k \in S : \A h \in S : k <= h

\* the step of p in which an observation passes the vertical cross-check
Observes(p) == frame'[p].observed = frame[p].observed + 1

\* 2.5, 6.0, 1.0: structure A of TwoPatterns; structure B is at 6.5, 2.0
PatternA == AlignmentPattern(FromInt(5) \div 2, FromInt(6), FromInt(1))

\* C2: the first observation that passes the cross-check and is about equal
\* to a saved candidate ends Find at once with the combination of the first
\* such candidate and the observation; no other step confirms; nothing is
\* scanned afterwards; and of two structures that both confirm, the one whose
\* second row comes first in the zig-zag order is returned (A of TwoPatterns,
\* although B is nearer the middle of the window).
C2_FirstConfirmationWins ==
    /\ [][\A p \in Procs :
            LET centers == possibleCenters[Slot(p)]
                seen == frame'[p].lastSeen
                hits == Matches(centers, seen)
            IN  /\ (Observes(p) /\ hits # {}) =>
                    /\ frame'[p].pc = "Done" /\ frame'[p].confirmed
                    /\ frame'[p].status = "NoError"
                    /\ frame'[p].result =
                          combineEstimate(centers[Least(hits)], seen.y, seen.x,
                                          seen.estimatedModuleSize)
                    /\ frame'[p].j = frame[p].j /\ frame'[p].iGen = frame[p].iGen
                /\ (frame'[p].confirmed /\ ~frame[p].confirmed) =>
                    (Observes(p) /\ hits # {})
                /\ Done(p) => frame'[p] = frame[p]]_vars
    /\ [](\A p \in Procs :
            (image = TwoPatterns /\ Done(p)
                /\ WholeImage(image) = WindowOf(frame[p])) =>
                (frame[p].confirmed /\ frame[p].result = PatternA))

\* C2 witness: Find returned structure A of TwoPatterns on a confirmation,
\* after it had saved both A and B
C2_Witness ==
    \E p \in Procs :
        /\ image = TwoPatterns /\ Done(p) /\ frame[p].confirmed
        /\ frame[p].saved = 2 /\ frame[p].result = PatternA

\* window middle row of the generation g, as the specification words it
ZigZagRow(windowY, windowHeight, g) ==
    LET middleRow == windowY + windowHeight \div 2
    IN  IF g % 2 = 0 THEN middleRow + (g + 1) \div 2 ELSE middleRow - (g + 1) \div 2

\* C3: the g-th row scanned (g = 0 .. windowHeight-1) is middleRow + (g+1)/2
\* for even g and middleRow - (g+1)/2 for odd g, so the distance from the
\* middle row never decreases; a run that is not cut short scans all of them.
C3_ZigZagOrder ==
    \A p \in Procs :
        LET f == frame[p]
            middleRow == f.startY + f.height \div 2
        IN  /\ Len(f.rows) <= (IF f.height > 0 THEN f.height ELSE 0)
            /\ \A g \in 1..Len(f.rows) :
                    f.rows[g] = ZigZagRow(f.startY, f.height, g - 1)
            /\ \A g \in 1..(Len(f.rows) - 1) :
                    Abs(f.rows[g] - middleRow) <= Abs(f.rows[g + 1] - middleRow)
            /\ (Done(p) /\ ~f.confirmed /\ f.height > 0) => Len(f.rows) = f.height

\* C3 witness: four rows scanned: middle, middle-1, middle+1, middle-2
C3_Witness ==
    \E p \in Procs :
        LET f == frame[p]
        IN  /\ Done(p) /\ Len(f.rows) = 4
            /\ f.rows = <<f.middleI, f.middleI - 1, f.middleI + 1, f.middleI - 2>>

\* C4 as claimed: no invocation ever reads a pixel outside the image,
\* whatever the window.
C4_NeverReadsOutside ==
    \A p \in Procs : ~frame[p].outOfRange

\* C4 amended: an invocation whose window lies within the image reads no
\* pixel outside the image.
C4_WindowInImageReadsInside ==
    \A p \in Procs :
        WindowInImage(image, frame[p]) => ~frame[p].outOfRange

\* C4 witness: a window within the image whose cross-check ran up to the top
\* and the bottom edge of the image
C4_Witness ==
    \E p \in Procs :
        /\ WindowInImage(image, frame[p]) /\ Done(p)
        /\ frame[p].crossChecks > 0
        /\ frame[p].lastEdges = {"upOuter", "downOuter"}
        /\ ~frame[p].outOfRange

\* C5: no candidate in the vector and no pattern Find returns holds the NaN
\* that CrossCheckVertical returns for "not found".
C5_NoNaNInCandidates ==
    \A p \in Procs :
        /\ \A k \in 1..Len(possibleCenters[Slot(p)]) :
                ~HasNaN(possibleCenters[Slot(p)][k])
        /\ frame[p].status = "NoError" => ~HasNaN(frame[p].result)

\* C5 witness: Find returned a saved candidate after a later cross-check had
\* returned NaN
C5_Witness ==
    \E p \in Procs :
        /\ Done(p) /\ frame[p].status = "NoError" /\ frame[p].saved > 0
        /\ frame[p].crossChecks > frame[p].observed
        /\ IsNaN(frame[p].lastCross)

Max(a, b) == IF a > b THEN a ELSE b

Min(a, b) == IF a < b THEN a ELSE b

Ended(p) == frame[p].pc \in {"Done", "Fault", "Idle"}

InCrossCheck(f) == f.pc \in {"UpMiddle", "UpOuter", "DownMiddle", "DownOuter"}

\* the bounds of the loops of one invocation
LoopBounds(f) ==
    /\ 0 <= f.iGen /\ f.iGen <= Max(f.height, 0)
    /\ Len(f.rows) <= Max(f.height, 0)
    /\ f.pc \in {"Burn", "Scan"} \cup {"UpMiddle", "UpOuter", "DownMiddle", "DownOuter"} =>
            /\ f.iGen < f.height
            /\ f.startX <= f.j /\ f.j <= Max(f.maxJ, f.startX)
    /\ \A k \in 0..2 : 0 <= f.ccCount[k] /\ f.ccCount[k] <= f.maxCount + 1
    /\ InCrossCheck(f) =>
            /\ Min(-1, f.i) <= f.ccI
            /\ f.ccI <= Max(image.height, f.i + 1)

\* A measure of the work an invocation has left: the loop tests of the
\* cross-check in progress, of the rest of the row, and of the rows to come.
RowWidth(f) == Max(f.width, 0)

CrossCost(f) == 4 * (2 * RowWidth(f) + 3)

ColumnCost(f) == CrossCost(f) + 2

RowCost(f) == (RowWidth(f) + 2) * ColumnCost(f) + 2

CrossRank(f) ==
    LET limit == f.maxCount + 1
        loop == f.maxCount + 2
    IN  IF f.pc = "UpMiddle" THEN 3 * loop + (limit - f.ccCount[1]) + 1
        ELSE IF f.pc = "UpOuter" THEN 2 * loop + (limit - f.ccCount[0]) + 1
        ELSE IF f.pc = "DownMiddle" THEN loop + (limit - f.ccCount[1]) + 1
        ELSE (limit - f.ccCount[2]) + 1

InRowRank(f) ==
    Max(f.maxJ - f.j, 0) * ColumnCost(f)
        + (IF f.pc = "Burn" THEN CrossCost(f) + 2
           ELSE IF f.pc = "Scan" THEN CrossCost(f) + 1
           ELSE CrossRank(f))

Rank(f) ==
    IF f.pc = "Start" THEN Max(f.height, 0) * RowCost(f) + 3
    ELSE IF f.pc = "RowLoop" THEN (Max(f.height, 0) - f.iGen) * RowCost(f) + 2
    ELSE IF f.pc = "Fallback" THEN 1
    ELSE IF f.pc \in {"Done", "Fault", "Idle"} THEN 0
    ELSE (f.height - f.iGen - 1) * RowCost(f) + 3 + InRowRank(f)

\* an action of p is enabled: every action but Fault is guarded by pc alone
CanStep(p) ==
    /\ frame[p].pc \in {"Start", "RowLoop", "Burn", "Scan", "UpMiddle", "UpOuter",
                         "DownMiddle", "DownOuter", "Fallback"}
    /\ ReadValues(frame[p]) # {}

\* C6: every invocation of Find ends.  The row loop runs at most height
\* times, the column of a row scan stays within startX .. maxJ and advances,
\* no count of a cross-check passes maxCount + 1 and its row index stays
\* within the edges of the image; every step lowers a measure that is never
\* negative, and an invocation that has not ended can take a step.
C6_Terminates ==
    /\ [](\A p \in Procs :
            /\ LoopBounds(frame[p])
            /\ Rank(frame[p]) >= 0
            /\ ~Ended(p) => CanStep(p))
    /\ [][\A p \in Procs :
            /\ Step(p) => Rank(frame'[p]) < Rank(frame[p])
            /\ (frame[p].pc \in {"Burn", "Scan"} /\ frame'[p].pc \in {"Burn", "Scan"}
                /\ frame'[p] # frame[p])
                => \/ frame'[p].j = frame[p].j + 1
                   \/ frame[p].pc = "Burn" /\ frame'[p].pc = "Scan"]_vars

\* C6 witness: Find returned after a cross-check loop was stopped by maxCount
C6_Witness ==
    \E p \in Procs :
        /\ Done(p) /\ frame[p].crossChecks > 0 /\ frame[p].height > 1
        /\ \E k \in 0..2 : frame[p].ccCount[k] = frame[p].maxCount + 1

NoDarkInWindow(f) ==
    \A px \in image.bits :
        ~(/\ f.startX <= px[1] /\ px[1] < f.startX + f.width
          /\ f.startY <= px[2] /\ px[2] < f.startY + f.height)

LastMet(f, loops) == f.crossChecks > 0 /\ f.lastEdges \cap loops # {}

\* the callee's locals in f are those of the last cross-check at its return
AfterCrossCheck(f) == f.crossChecks > 0 /\ ~InCrossCheck(f) /\ f.pc # "Fault"

\* what lines 110-115 return for the counts of the last cross-check
LastCrossExpected(f) ==
    CrossCheckResult(f.ccCount, f.ccI, f.ccTotal, f.moduleSize)

\* C10 as claimed: a cross-check that reaches the top or the bottom edge of
\* the image in any of its four loops returns NaN.
C10_AnyEdgeFails ==
    \A p \in Procs :
        LastMet(frame[p], {"upMiddle", "upOuter", "downMiddle", "downOuter"})
            => IsNaN(frame[p].lastCross)

\* C10 amended: a cross-check that reaches the edge while it counts the middle
\* run returns NaN; one that reaches it only while it counts an outer run goes
\* on with the run cut at the edge: it does not return from the upper outer
\* loop unless that count passed maxCount, and after the lower outer loop it
\* returns what the total and the ratio test give unless that count passed
\* maxCount.
C10_MiddleEdgeFails ==
    \A p \in Procs :
        LET f == frame[p]
        IN  /\ LastMet(f, {"upMiddle", "downMiddle"}) => IsNaN(f.lastCross)
            /\ (LastMet(f, {"upOuter"}) /\ AfterCrossCheck(f)
                    /\ f.lastExit = "UpOuter")
                    => f.ccCount[0] > f.maxCount
            /\ (LastMet(f, {"downOuter"}) /\ AfterCrossCheck(f)
                    /\ f.ccCount[2] <= f.maxCount)
                    => f.lastCross = LastCrossExpected(f)

\* C10 witness: one cross-check ran off the bottom in its middle run and
\* failed, after another had run off the top in its outer run and passed
C10_Witness ==
    \E p \in Procs :
        /\ LastMet(frame[p], {"downMiddle"}) /\ IsNaN(frame[p].lastCross)
        /\ frame[p].observed > 0

\* C9: Find does not change the image, and an invocation on a window within
\* the image returns, however its steps are interleaved with those of another
\* invocation on the same image, the status and the pattern that the same
\* call returns when it runs alone; so do repeated calls.
C9_ResultAsAlone ==
    /\ [][image' = image]_vars
    /\ [](\A p \in Procs :
            (Done(p) /\ WindowInImage(image, frame[p])) =>
                /\ frame[p].status = Alone(frame[p]).status
                /\ frame[p].result = Alone(frame[p]).result)

\* C9 witness: two invocations on overlapping windows of one image have both
\* returned a confirmed pattern
C9_Witness ==
    /\ \A p \in Procs :
            /\ Done(p) /\ frame[p].confirmed /\ WindowInImage(image, frame[p])
    /\ WindowOf(frame[1]) # WindowOf(frame[2])

\* the total of the three counts of the last cross-check is too far from the
\* total of the horizontal counts it was called with
TotalsApart(f) == 5 * Abs(Total(f.ccCount) - f.ccTotal) >= 2 * f.ccTotal

\* C11: a cross-check whose vertical total V and horizontal total H have
\* 5 * |V - H| >= 2 * H returns NaN, also when the three vertical counts pass
\* the ratio test; so every observation that is saved or confirmed has
\* 5 * |V - H| < 2 * H.
C11_TotalsAgree ==
    /\ [](\A p \in Procs :
            AfterCrossCheck(frame[p]) =>
                /\ TotalsApart(frame[p]) => IsNaN(frame[p].lastCross)
                /\ ~IsNaN(frame[p].lastCross) =>
                        5 * Abs(Total(frame[p].ccCount) - frame[p].ccTotal)
                            < 2 * frame[p].ccTotal)
    /\ [][\A p \in Procs :
            Observes(p) => (AfterCrossCheck(frame'[p]) /\ ~TotalsApart(frame'[p]))]_vars

\* C11 witness: a cross-check returned NaN for totals too far apart although
\* its three counts pass the ratio test
C11_Witness ==
    \E p \in Procs :
        /\ AfterCrossCheck(frame[p]) /\ TotalsApart(frame[p])
        /\ frame[p].lastExit = "DownOuter"
        /\ \A k \in 0..2 : frame[p].ccCount[k] <= frame[p].maxCount
        /\ FoundPatternCross(frame[p].ccCount, frame[p].moduleSize)
        /\ IsNaN(frame[p].lastCross)

\* center a, as the receiver, is about equal to center b
AboutEqual(a, b) == aboutEquals(a, b.estimatedModuleSize, b.y, b.x)

\* C12 as claimed: no two distinct entries of the vector are about equal, in
\* either argument order.
C12_NoTwoAboutEqual ==
    \A p \in Procs :
        LET centers == possibleCenters[Slot(p)]
        IN  \A i \in 1..Len(centers) : \A k \in 1..Len(centers) :
                i # k => ~AboutEqual(centers[i], centers[k])

\* C12 amended: no entry of the vector is about equal to an entry saved after
\* it, the earlier entry being the receiver whose module size gives the
\* tolerance.
C12_NoLaterAboutEqual ==
    \A p \in Procs :
        LET centers == possibleCenters[Slot(p)]
        IN  \A i \in 1..Len(centers) : \A k \in 1..Len(centers) :
                i < k => ~AboutEqual(centers[i], centers[k])

\* C12 witness: two entries, the first not about equal to the second, the
\* second about equal to the first
C12_Witness ==
    \E p \in Procs :
        LET centers == possibleCenters[Slot(p)]
        IN  /\ Len(centers) = 2
            /\ ~AboutEqual(centers[1], centers[2])
            /\ AboutEqual(centers[2], centers[1])

\* C13: the three counts of the row scan and of the cross-check are never
\* negative; every saved center and every returned pattern has an estimated
\* module size above 0, which is a third of the total of a horizontal triple
\* whose three counts passed FoundPatternCross.
C13_CountsAndSizePositive ==
    /\ [](\A p \in Procs :
            /\ \A k \in 0..2 :
                    frame[p].stateCount[k] >= 0 /\ frame[p].ccCount[k] >= 0
            /\ \A n \in 1..Len(possibleCenters[Slot(p)]) :
                    possibleCenters[Slot(p)][n].estimatedModuleSize > 0
            /\ frame[p].status = "NoError" =>
                    frame[p].result.estimatedModuleSize > 0)
    /\ [][\A p \in Procs :
            Observes(p) =>
                /\ FoundPatternCross(frame[p].stateCount, frame[p].moduleSize)
                /\ Total(frame[p].stateCount) > 0
                /\ 3 * frame'[p].lastSeen.estimatedModuleSize
                        \in { FromInt(Total(frame[p].stateCount)) + d : d \in -3..3 }]_vars

\* C13 witness: Find returned a pattern whose estimated module size, 4/3, is
\* a third of a horizontal total of 4
C13_Witness ==
    \E p \in Procs :
        /\ Done(p) /\ frame[p].status = "NoError"
        /\ frame[p].result.estimatedModuleSize = FDiv3(4)
        /\ \E n \in 1..Len(possibleCenters[Slot(p)]) :
                possibleCenters[Slot(p)][n].estimatedModuleSize > 0

\* the triple of counts a, b, c
Triple(a, b, c) == [k \in 0..2 |-> IF k = 0 THEN a ELSE IF k = 1 THEN b ELSE c]

\* C14: FoundPatternCross accepts a triple exactly if each of its counts is
\* less than half a module size away from the module size; with module size
\* 10 it accepts (10,10,10) and (8,11,8), rejects (10,20,10) and rejects
\* every triple with a count of 5 or 15.
C14_ValidRatio ==
    \A p \in Procs :
        LET f == frame[p] IN
        f.pc = "Judged" =>
            /\ f.accepted <=>
                    \A k \in 0..2 :
                        2 * Abs(f.moduleSize - f.stateCount[k] * Scale) < f.moduleSize
            /\ f.moduleSize = 10 * Scale =>
                    /\ f.stateCount = Triple(10, 10, 10) => f.accepted
                    /\ f.stateCount = Triple(8, 11, 8) => f.accepted
                    /\ f.stateCount = Triple(10, 20, 10) => ~f.accepted
                    /\ (\E k \in 0..2 : f.stateCount[k] \in {5, 15}) => ~f.accepted

\* C14 witness: both calls returned for (8,11,8) and module size 10, accepted
C14_Witness ==
    \A p \in Procs :
        /\ frame[p].pc = "Judged" /\ frame[p].moduleSize = 10 * Scale
        /\ frame[p].stateCount = Triple(8, 11, 8) /\ frame[p].accepted

\* the pixel of the image that holds the point (x, y) is black
BlackAt(x, y) == Get(ToInt(x), ToInt(y))

\* the row scan of f has counted the pixel left of column j
HasCounted(f) == f.pc = "Scan" /\ Total(f.stateCount) > 0

AtRowEnd(f) == f.pc = "Scan" /\ f.j >= f.maxJ

\* C16: at the end of a row the triple is judged once.  The step either goes
\* on to the next row with nothing observed, or calls HandlePossibleCenter
\* with end index startX + width, and that only when the scan ended the row
\* counting its third run; a row that ends counting nothing or its middle run
\* goes on to the next row.  When that call returns, Find returns or goes on
\* to the next row; an observation made at a row end has end index
\* startX + width.
C16_RowEndOnce ==
    [][\A p \in Procs :
        LET f == frame[p]
            g == frame'[p]
        IN  /\ (AtRowEnd(f) /\ g # f) =>
                    \/ /\ g.pc = "RowLoop" /\ g.iGen = f.iGen + 1
                       /\ g.observed = f.observed /\ g.crossChecks = f.crossChecks
                    \/ /\ g.pc = "UpMiddle" /\ g.site = "rowend"
                       /\ g.endJ = f.startX + f.width
                       /\ f.currentState = 2 /\ g.iGen = f.iGen
            /\ (AtRowEnd(f) /\ g # f /\ f.currentState \in {0, 1}) => g.pc = "RowLoop"
            /\ (InCrossCheck(f) /\ ~InCrossCheck(g) /\ f.site = "rowend"
                    /\ g.pc # "Fault") =>
                    \/ g.pc = "Done" /\ g.confirmed
                    \/ g.pc = "RowLoop" /\ g.iGen = f.iGen + 1
            /\ (Observes(p) /\ f.site = "rowend") =>
                    f.currentState = 2 /\ f.endJ = f.startX + f.width]_vars

\* C16 witness: an observation made at the end of a row was saved
C16_Witness ==
    \E p \in Procs :
        /\ frame[p].site = "rowend" /\ AfterCrossCheck(frame[p])
        /\ ~IsNaN(frame[p].lastCross) /\ frame[p].saved > 0
        /\ frame[p].endJ = frame[p].startX + frame[p].width
        /\ frame[p].currentState = 2

\* the length of the maximal run of pixels of one colour in row y that ends
\* at column x and does not start left of column lo; 0 if x is left of lo
RECURSIVE RunBack(_, _, _)
RunBack(x, y, lo) ==
    IF x < lo THEN 0
    ELSE IF x > lo /\ Get(x - 1, y) = Get(x, y) THEN 1 + RunBack(x - 1, y, lo)
    ELSE 1

\* the length of the run that ends at column x, or 0 if it is the run the row
\* starts with: the white pixels skipped before the first black one
RunCounted(x, y, lo) ==
    IF x - RunBack(x, y, lo) < lo THEN 0 ELSE RunBack(x, y, lo)

\* what the counts of the row scan are to be left of column f.j: the lengths
\* of the runs of the row that end there, the run in progress last; a run
\* not yet begun counts 0
RunsOfRow(f) ==
    LET lo == f.startX
        last == RunBack(f.j - 1, f.i, lo)
        before == RunBack(f.j - 1 - last, f.i, lo)
    IN  IF f.currentState = 2
        THEN Triple(RunCounted(f.j - 1 - last - before, f.i, lo), before, last)
        ELSE Triple(RunCounted(f.j - 1 - last, f.i, lo), last, 0)

\* C17: when a triple is judged in the row and not confirmed, the third run
\* becomes the first, the middle count restarts with the black pixel just
\* read and the third at 0; at every point of the row scan, hence whenever a
\* triple is judged, the counts are the lengths of the most recent maximal
\* runs of the row left of the current column, each pixel counted once.
C17_SlideKeepsRuns ==
    /\ [](\A p \in Procs :
            (WindowInImage(image, frame[p]) /\ HasCounted(frame[p])) =>
                /\ frame[p].currentState \in {1, 2}
                /\ frame[p].stateCount = RunsOfRow(frame[p]))
    /\ [][\A p \in Procs :
            LET f == frame[p]
                g == frame'[p]
            IN  /\ (f.pc = "Scan" /\ f.j < f.maxJ /\ f.currentState = 2
                        /\ g.pc = "Scan" /\ g.currentState = 1) =>
                        /\ g.stateCount = Triple(f.stateCount[2], 1, 0)
                        /\ g.j = f.j + 1
                /\ (InCrossCheck(f) /\ g.pc = "Scan") =>
                        /\ g.stateCount = Triple(f.stateCount[2], 1, 0)
                        /\ g.currentState = 1 /\ g.j = f.endJ + 1]_vars

\* C17 witness: after a slide the row scan stands on a black pixel with three
\* counts above 0 that are the lengths of the last three runs
C17_Witness ==
    \E p \in Procs :
        LET f == frame[p]
        IN  /\ WindowInImage(image, f) /\ HasCounted(f)
            /\ f.currentState = 2 /\ f.j < f.maxJ /\ Get(f.j, f.i)
            /\ f.stateCount[0] > 0
            /\ f.stateCount = Triple(RunBack(f.j - 1 - f.stateCount[2] - f.stateCount[1], f.i, f.startX),
                                     RunBack(f.j - 1 - f.stateCount[2], f.i, f.startX),
                                     RunBack(f.j - 1, f.i, f.startX))

\* the rows f has scanned so far
RowsScanned(f) == {f.rows[g] : g \in 1..Len(f.rows)}

\* C18: for a window of height 1 or more, every row scanned is a row of the
\* window, no row is scanned twice, and an invocation that goes through all
\* rows without a confirmation has scanned exactly the rows
\* startY .. startY + height - 1.
C18_EveryRowOnce ==
    \A p \in Procs :
        LET f == frame[p] IN
        f.height >= 1 =>
            /\ \A g \in 1..Len(f.rows) :
                    f.startY <= f.rows[g] /\ f.rows[g] < f.startY + f.height
            /\ \A g \in 1..Len(f.rows) : \A h \in 1..Len(f.rows) :
                    g # h => f.rows[g] # f.rows[h]
            /\ (Done(p) /\ ~f.confirmed) =>
                    /\ RowsScanned(f) = f.startY..(f.startY + f.height - 1)
                    /\ Len(f.rows) = f.height

\* C18 witness: a window of odd height below the top row of the image was
\* gone through without a confirmation
C18_Witness ==
    \E p \in Procs :
        LET f == frame[p]
        IN  /\ Done(p) /\ ~f.confirmed /\ f.height % 2 = 1 /\ f.height >= 3
            /\ f.startY > 0
            /\ RowsScanned(f) = f.startY..(f.startY + f.height - 1)

\* C19: an invocation whose window lies within the image reads no pixel
\* outside the image: every pixel its next step reads is in the image, and
\* the column handed to CrossCheckVertical, the center of the horizontal
\* triple cut to an integer, is a column of the window, also when the triple
\* was judged at the end of the row with end index startX + width.
C19_CrossCheckColumnInWindow ==
    \A p \in Procs :
        LET f == frame[p] IN
        WindowInImage(image, f) =>
            /\ ~f.outOfRange
            /\ \A px \in Reads(f) : InImage(px[1], px[2])
            /\ InCrossCheck(f) =>
                    /\ f.ccJ = ToInt(f.centerJ)
                    /\ f.startX <= f.ccJ /\ f.ccJ < f.startX + f.width
                    /\ f.site = "rowend" => f.endJ = f.startX + f.width

\* C19 witness: a cross-check called at the end of a row of a window that
\* ends at the right edge of the image, in the last column but one
C19_Witness ==
    \E p \in Procs :
        LET f == frame[p]
        IN  /\ WindowInImage(image, f) /\ InCrossCheck(f) /\ f.site = "rowend"
            /\ f.startX + f.width = image.width
            /\ f.ccJ = image.width - 2

\* the column where the middle run of the counts of f begins: the counts end
\* left of column j in the row scan and left of the end index in a call of
\* HandlePossibleCenter
MiddleStart(f) ==
    (IF InCrossCheck(f) THEN f.endJ ELSE f.j) - f.stateCount[2] - f.stateCount[1]

\* a black pixel lies in the row of f between the window's first column and
\* column x, x excluded
DarkBefore(f, x) == \E c \in f.startX..(x - 1) : Get(c, f.i)

\* C20: for a positive module size, in every row the counts have a first
\* count of 0 exactly as long as their middle run is the first dark run of
\* the window row (the white pixels before it are skipped, not counted), so
\* the first triple judged in a row has a first count of 0; a triple handed
\* to HandlePossibleCenter has a first count of 1 or more and a black pixel
\* of the window row left of its middle run: its middle run is the second or
\* a later dark run of the row.
C20_FirstDarkRunNeverMiddle ==
    \A p \in Procs :
        LET f == frame[p] IN
        (WindowInImage(image, f) /\ f.moduleSize > 0) =>
            /\ (f.pc = "Scan" \/ InCrossCheck(f)) =>
                    (f.stateCount[0] = 0 <=> ~DarkBefore(f, MiddleStart(f)))
            /\ InCrossCheck(f) =>
                    /\ f.stateCount[0] >= 1
                    /\ MiddleStart(f) > f.startX
                    /\ ~Get(MiddleStart(f) - 1, f.i)
                    /\ Get(MiddleStart(f), f.i)
                    /\ DarkBefore(f, MiddleStart(f))

\* C20 witness: the window row begins with a black pixel, and a triple whose
\* middle run begins further right was handed to HandlePossibleCenter
C20_Witness ==
    \E p \in Procs :
        LET f == frame[p]
        IN  /\ WindowInImage(image, f) /\ f.moduleSize > 0
            /\ InCrossCheck(f)
            /\ Get(f.startX, f.i)
            /\ MiddleStart(f) > f.startX + 1
            /\ f.stateCount[0] >= 1

=============================================================================
